---- MODULE Spec2Model ----
(***************************************************************************)
(* Game Session Engine of the English pronunciation-practice backend:      *)
(* GameService (app/services/game_service.py) over the game_sessions,      *)
(* game_results and speeches tables (app/models), with the admin speech    *)
(* endpoints that create and delete the speeches a result batch refers to. *)
(*                                                                         *)
(* Every request runs in its own AsyncSession (app/database.py get_db).    *)
(* complete_session awaits the database three times (the session SELECT,   *)
(* the speech SELECT, the commit), so it is three steps of one call slot;  *)
(* the other handlers touch the database in one transaction and are one    *)
(* step each.  The database state below is the committed state.            *)
(***************************************************************************)
EXTENDS Integers, Sequences, FiniteSets, TLC

\* ------------------------------------------------------------------ bounds
MaxSessions == 2   \* game_sessions rows ever created
MaxSpeeches == 2   \* speech ids 1..MaxSpeeches
MaxBatch == 2      \* length of a result batch
MaxSeq == 2        \* sequence numbers 1..MaxSeq a client may send
MaxCalls == 2      \* complete_session calls ever started
MaxInFlight == 2   \* complete_session calls running at the same time
MaxUploads == 2    \* upload_audio_files calls ever made
MaxFiles == 2      \* files of one upload_audio_files call
MaxRows == 2       \* data rows of one CSV
MaxImports == 1    \* import_csv calls ever made
MaxNow == 36       \* hours the process is observed for
MaxUsers == 2      \* users rows ever created

\* ------------------------------------------------------------- value kinds
\* Python None / SQL NULL of an Optional column.
None == <<>>
\* A datetime: the value of func.now() / datetime.now() is the clock reading.
Datetime(t) == <<t>>
\* A float score, kept exact as a fraction <<numerator, denominator>>.
Float(v) == <<v, 1>>

Users == {"u1", "u2"}
GameMode == {"listen_only", "listen_and_repeat"}
UserResponse == {"correct", "incorrect", "skipped"}
SpeechIds == 1..MaxSpeeches
SessionIds == 1..MaxSessions
Procs == 1..MaxInFlight

\* GameResultInput: speech_id is any UUID, sequence_number has ge=1, the three
\* scores are Optional floats in 0..100.  recognized_text, completeness_score and
\* word_scores are copied into the row and never read by the service.
GameResultInput(sp, sq, ur, ps, as, fs) ==
    [speech_id |-> sp, sequence_number |-> sq, user_response |-> ur,
     pronunciation_score |-> ps, accuracy_score |-> as, fluency_score |-> fs]

\* The inputs of a game of MaxSeq sentences: the n-th one has sequence number n,
\* names one of the speech ids in turn, and is in turn a scored correct answer, an
\* unscored skip, a scored incorrect answer.
ResponseOfTurn == <<"correct", "skipped", "incorrect">>

RefInputs ==
    { GameResultInput(((n - 1) % MaxSpeeches) + 1, n,
                      ResponseOfTurn[((n - 1) % Len(ResponseOfTurn)) + 1],
                      IF n % 2 = 1 THEN Float(100) ELSE None,
                      IF n % 2 = 1 THEN Float(80) ELSE None,
                      None) :
        n \in 1..MaxSeq }

\* Inputs that differ in what they carry: the response and the three scores.
ScoreTriples ==
    { <<None, None, None>>, <<Float(40), None, Float(60)>>,
      <<Float(100), Float(80), None>>, <<Float(70), Float(100), Float(100)>> }

ScoreInputs ==
    { GameResultInput(1, 1, ur, sc[1], sc[2], sc[3]) :
        ur \in UserResponse, sc \in ScoreTriples }

Level == {"A1", "A2", "B1", "B2", "C1"}

\* The audio files a client uploads: (filename, size).
AudioFile(filename, size) == [filename |-> filename, size |-> size]

AudioFiles ==
    { AudioFile(<<"a", ".", "mp3">>, 4), AudioFile(<<"b", ".", "MP3">>, 10 * 1024 * 1024),
      AudioFile(<<"c", ".", "m4a">>, 10 * 1024 * 1024 + 1),
      AudioFile(<<"x", ".", "txt">>, 4) }

\* The piece that stands for 101 letters t.
LongPiece == "t*101"

\* The cells of a CSV data row; a cell is boxed, None is a cell the row is too
\* short for.
CsvRow(filename, text, level, type, tag_list) ==
    [audio_filename |-> filename, text |-> text, level |-> level, type |-> type,
     tags |-> tag_list]

CsvRows ==
    { CsvRow(<< <<"a", ".", "mp3">> >>, << <<"hello">> >>, << <<"A1">> >>,
             << <<"question">> >>, << <<"x", ",", " ", "daily_life">> >>),
      CsvRow(<< <<" ", "a", ".", "mp3">> >>, << <<"hi">> >>, << <<"b1">> >>,
             << <<>> >>, << <<>> >>),
      CsvRow(<< <<"b", ".", "MP3">> >>, << <<"hi">> >>, << <<"Z9">> >>,
             << <<"answer">> >>, << <<>> >>),
      CsvRow(<< <<"a", "_", "1", ".", "mp3">> >>, << <<"hi">> >>, << <<"C1">> >>,
             << <<"ANSWER">> >>, << <<>> >>),
      CsvRow(<< <<"b", ".", "MP3">> >>, << <<"hello">> >>, << <<"A2">> >>,
             << <<"answer">> >>, << <<"x", ",", "x">> >>),
      CsvRow(<< <<"a", ".", "mp3">> >>, None, None, None, None),
      CsvRow(<< <<"b", ".", "MP3">> >>, << <<"hello">> >>, << <<"A2">> >>,
             << <<"answer">> >>, << <<LongPiece>> >>),
      CsvRow(<< <<>> >>, << <<" ">> >>, << <<"A1">> >>, << <<"quiz">> >>, << <<>> >>) }

RequiredColumns == {"audio_filename", "text", "level"}

CsvColumns == {"audio_filename", "text", "level", "type", "tags"}

\* A CSV with the given header and rows: each row keeps the header's columns.
Csv(header, rows) ==
    [header |-> header,
     rows |-> [i \in 1..Len(rows) |-> [c \in header |-> rows[i][c]]]]

CsvFiles ==
    { Csv(CsvColumns, rows) : rows \in UNION { [1..n -> CsvRows] : n \in 1..MaxRows } }
        \cup { Csv(h, <<r>>) : h \in {RequiredColumns, {"audio_filename", "text"}},
                               r \in CsvRows }

\* RandomSpeechRequest values: level, type, tag_ids, limit.
RandomSpeechRequests ==
    { <<None, None, <<>>, 1>>,
      <<None, None, << <<"present_simple">> >>, 2>>,
      <<None, None, << <<"present_simple">>, <<"daily_life">> >>, 2>>,
      <<None, None, << <<"present_simple">>, <<"present_simple">> >>, 2>>,
      << <<"A1">>, <<"answer">>, << <<"daily_life">> >>, 1>>,
      << <<"B1">>, None, << <<"x">> >>, 1>> }

\* What the admin sends to the tag endpoints.
TagNamesSent == { <<"x">>, <<"daily_life">> }

TagCategoriesSent == { "topic" }

\* The upload and the CSVs of an import that meets tags made by hand: two rows
\* that both carry the new tag x, and a row with a seeded tag.
TagFileLists == { << AudioFile(<<"a", ".", "mp3">>, 4), AudioFile(<<"b", ".", "MP3">>, 4) >> }

TagCsvFiles ==
    { Csv(CsvColumns,
          << CsvRow(<< <<"a", ".", "mp3">> >>, << <<"hello">> >>, << <<"A1">> >>,
                    << <<"question">> >>, << <<"x", ",", " ", "daily_life">> >>),
             CsvRow(<< <<"b", ".", "MP3">> >>, << <<"hi">> >>, << <<"A2">> >>,
                    << <<"answer">> >>, << <<"x">> >>) >>) }

\* Files named like the suffixed name of a duplicate, and the lists of them.
SuffixFiles ==
    { AudioFile(<<"a", ".", "mp3">>, 4), AudioFile(<<"a", "_", "1", ".", "mp3">>, 4) }

SuffixLists == [1..(MaxFiles + 1) -> SuffixFiles]

\* The max_age_hours a sweep of the registry is called with: the default of 24
\* and half of it.
SweepAges == {24, 12}

FileLists == UNION { [1..n -> AudioFiles] : n \in 0..MaxFiles }

Batches(inputs) == UNION { [1..n -> inputs] : n \in 0..MaxBatch }

VARIABLES
    schema,    \* how the tables were created: "create_all" or "alembic"
    speeches,  \* ids of the rows of table speeches
    sessions,  \* table game_sessions: id -> row
    results,   \* table game_results, rows in insertion order
    clock,     \* database time
    calls,     \* the complete_session calls: slot -> position and locals
    budget,    \* complete_session calls that may still start
    pool,      \* what the clients send: the users, the modes, the result inputs
    last,      \* the request that ended last, and its response
    now,       \* wall clock (datetime.utcnow()), in hours
    uploads,   \* ImportService._sessions: upload session id -> <<session>>, or
               \* None for an id whose call registered no session
    storage,   \* the object keys present in the audio bucket
    catalog,   \* table speeches with speech_tags: id -> row
    tags,      \* table tags
    imports,   \* import_csv calls that may still create speeches
    tagcall,   \* the create_tag or update_tag call between its check and its
               \* commit, boxed, or None
    users,     \* table users in insertion order: <<row>>, or None for a deleted row
    authcalls  \* the register and social_auth calls between their check and
               \* their commit

vars == <<schema, speeches, sessions, results, clock, calls, budget, pool, last,
          now, uploads, storage, catalog, tags, imports, tagcall, users, authcalls>>

\* The state of the bulk import and of the speech catalogue, the state of the
\* game sessions, and the state of the accounts.
importVars == <<now, uploads, storage, tags, imports, tagcall>>
gameVars == <<schema, sessions, results, clock, calls, budget, pool>>
accountVars == <<users, authcalls>>

\* -------------------------------------------------------------- the schema
\* GameSession.completed_at as declared by the ORM model: NOT NULL with
\* server_default now().  create_session leaves the column out of the INSERT, so
\* the row gets the column default of the deployed table.
OrmCompletedAtDefault(t) == Datetime(t)

\* The table as the production migrations create it ("use Alembic in production");
\* the migrations are not among the sources, so this is the data model's
\* "completed timestamp (nullable - null means in progress)".
MigratedCompletedAtDefault == None

CompletedAtDefault(t) ==
    IF schema = "create_all" THEN OrmCompletedAtDefault(t) ELSE MigratedCompletedAtDefault

\* ------------------------------------------------------------------- Init
IdleCall ==
    [pc |-> "idle", user |-> "u1", session_id |-> 1, results |-> <<>>, session |-> None]

\* What a request was and what its caller got: the outcome and, when the call
\* returned one, the body (boxed).  query holds the filters of a list request.
Reply(op, u, sid, q, o, body) ==
    [op |-> op, user |-> u, session_id |-> sid, query |-> q, outcome |-> o, body |-> body]

Response(op, u, sid, o) == Reply(op, u, sid, None, o, None)

\* scripts/seed_database.py: the tags and the speeches that are there from the
\* start.  A string is a sequence of pieces ("a", ".", "mp3"); speech i carries
\* the first i seeded tags.
SeedTagNames == << <<"present_simple">>, <<"daily_life">> >>

SeedTags == { [name |-> SeedTagNames[k], category |-> "tense"] : k \in DOMAIN SeedTagNames }

SeedSpeech(i) ==
    [audio_url |-> <<"seed/", ToString(i), ".", "mp3">>, text |-> <<"hello">>,
     level |-> "A1", type |-> "answer",
     tags |-> { SeedTagNames[k] : k \in { j \in DOMAIN SeedTagNames : j <= i } }]

\* A row of table users.  The id is the position of the row in the table, the
\* password hash and the provider's user id are Optional (boxed).
UserId(i) == "u" \o ToString(i)

UserRow(i, email, password_hash, auth_provider, auth_provider_id) ==
    [id |-> UserId(i), email |-> email, password_hash |-> password_hash,
     auth_provider |-> auth_provider, auth_provider_id |-> auth_provider_id]

\* pwd_context.hash and pwd_context.verify (bcrypt): the hash is not the password,
\* and a password verifies against its own hash only.
hash_password(password) == <<"bcrypt", password>>

verify_password(plain_password, hashed_password) ==
    hashed_password = hash_password(plain_password)

\* scripts/seed_database.py, seed_users: an email account and a Google account.
SeedUsers ==
    << <<UserRow(1, "john.doe@example.com", <<hash_password("Password123!")>>,
                 "email", None)>>,
       <<UserRow(2, "bob.wilson@gmail.com", None, "google", <<"google_123456789">>)>> >>

InitDb ==
    /\ schema \in {"create_all", "alembic"}
    /\ authcalls = <<>>
    /\ sessions = <<>>
    /\ results = <<>>
    /\ clock = 1
    /\ last = Response("none", "u1", 1, "none")
    /\ now = 0
    /\ uploads = <<>>
    /\ storage = {}
    /\ tags = SeedTags
    /\ imports = MaxImports
    /\ tagcall = None
    /\ catalog = [sp \in speeches |-> SeedSpeech(sp)]

\* Two users, concurrent calls, batches over RefInputs, every speech id seeded.
\* pool.queries are the <<mode, level, limit, offset>> of the list requests, the
\* filters optional; pool.include the include_results flags of get_session.
Init ==
    /\ users = SeedUsers
    /\ speeches = SpeechIds
    /\ InitDb
    /\ calls = [p \in Procs |-> IdleCall]
    /\ budget = MaxCalls
    /\ pool = [users |-> Users, modes |-> {"listen_and_repeat"}, inputs |-> RefInputs,
               queries |-> {<<None, None, 1, 0>>}, include |-> {TRUE}]

\* One user, sessions of both modes, one call, batches over ScoreInputs, which
\* all name speech 1.
InitAgg ==
    /\ users = SeedUsers
    /\ speeches = {1}
    /\ InitDb
    /\ calls = [p \in {1} |-> IdleCall]
    /\ budget = 1
    /\ pool = [users |-> {"u1"}, modes |-> GameMode, inputs |-> ScoreInputs,
               queries |-> {<<<<"listen_only">>, <<"A1">>, 2, 1>>}, include |-> {FALSE}]

\* ------------------------------------------------------- content store
\* The speeches are there from the start (scripts/seed_database.py).
\* DELETE /admin/speeches/{id}: db.delete(speech) and commit.  Speech.results is the
\* backref of GameResult.speech, without delete cascade and without passive_deletes:
\* the flush sets speech_id of the speech's results to NULL, the column is NOT NULL,
\* the commit fails and nothing is deleted.  An unknown id is a 404.
\* Speech.tags has cascade "all, delete": the delete of the speech cascades to
\* its Tag objects, and a deleted tag leaves the speech_tags rows of every
\* speech.
DeleteCascade(sp) == catalog[sp].tags

delete_speech(sp) ==
    /\ sp \in speeches
    /\ IF \E i \in 1..Len(results) : results[i].speech_id = sp
       THEN /\ last' = Response("delete_speech", "admin", sp, "IntegrityError")
            /\ UNCHANGED <<speeches, catalog, tags>>
       ELSE /\ speeches' = speeches \ {sp}
            /\ tags' = { t \in tags : t.name \notin DeleteCascade(sp) }
            /\ catalog' = [x \in speeches' |->
                              [catalog[x] EXCEPT !.tags = @ \ DeleteCascade(sp)]]
            /\ last' = Response("delete_speech", "admin", sp, "ok")
    /\ UNCHANGED <<now, uploads, storage, imports, tagcall, gameVars, accountVars>>

\* ---------------------------------------------------------------- tags
\* A tag is known by its name wherever the code uses its id: table tags has a
\* unique index on name.
TagExistsNever(name) == FALSE

TagExists(name) == \E t \in tags : t.name = name

SpeechCountZero(name) == 0

\* get_tag_speech_count
get_tag_speech_count(name) == Cardinality({ sp \in DOMAIN catalog : name \in catalog[sp].tags })

\* The unique index on tags.name refuses a row whose name is there already.
UniqueIndexRefuses(name) == TagExists(name)

\* POST /admin/tags and PUT /admin/tags/{tag_id} up to their commit: the lookups
\* and the 404 and 409 answers.  target is the tag an update names, None for a
\* create; name and category of an update are Optional.
tag_check(op, target, name, category) ==
    /\ tagcall = None
    /\ LET ask == <<target, name, category>>
       IN IF op = "create_tag"
          THEN IF TagExists(name[1])
               THEN /\ last' = Reply(op, "admin", 1, ask, "Conflict", None)
                    /\ UNCHANGED tagcall
               ELSE /\ tagcall' = <<[op |-> op, target |-> target, name |-> name,
                                     category |-> category]>>
                    /\ UNCHANGED last
          ELSE IF ~TagExists(target[1])
               THEN /\ last' = Reply(op, "admin", 1, ask, "NotFound", None)
                    /\ UNCHANGED tagcall
               ELSE IF name # None /\ name[1] # target[1] /\ TagExists(name[1])
               THEN /\ last' = Reply(op, "admin", 1, ask, "Conflict", None)
                    /\ UNCHANGED tagcall
               ELSE /\ tagcall' = <<[op |-> op, target |-> target, name |-> name,
                                     category |-> category]>>
                    /\ UNCHANGED last
    /\ UNCHANGED <<speeches, catalog, tags, now, uploads, storage, imports, gameVars, accountVars>>

\* The commit of a create_tag: the unique index on tags.name refuses a name that
\* was taken since the check.
create_tag_commit(c) ==
    LET ask == <<c.target, c.name, c.category>>
    IN IF UniqueIndexRefuses(c.name[1])
       THEN /\ last' = Reply(c.op, "admin", 1, ask, "IntegrityError", None)
            /\ UNCHANGED <<tags, catalog>>
       ELSE /\ tags' = tags \cup {[name |-> c.name[1], category |-> c.category[1]]}
            /\ last' = Reply(c.op, "admin", 1, ask, "ok",
                             <<[name |-> c.name[1], category |-> c.category[1],
                                speech_count |-> get_tag_speech_count(c.name[1])]>>)
            /\ UNCHANGED catalog

\* The commit of an update_tag: an UPDATE of the row of the tag.  The row may have
\* been deleted, and the new name taken, since the check.
update_tag_commit(c) ==
    LET ask == <<c.target, c.name, c.category>>
        old == CHOOSE t \in tags : t.name = c.target[1]
        new == [name |-> IF c.name # None THEN c.name[1] ELSE old.name,
                category |-> IF c.category # None THEN c.category[1] ELSE old.category]
    IN IF ~TagExists(c.target[1])
       THEN /\ last' = Reply(c.op, "admin", 1, ask, "StaleDataError", None)
            /\ UNCHANGED <<tags, catalog>>
       ELSE IF new.name # old.name /\ UniqueIndexRefuses(new.name)
       THEN /\ last' = Reply(c.op, "admin", 1, ask, "IntegrityError", None)
            /\ UNCHANGED <<tags, catalog>>
       ELSE /\ tags' = (tags \ {old}) \cup {new}
            /\ catalog' = [sp \in DOMAIN catalog |->
                              [catalog[sp] EXCEPT !.tags =
                                  IF old.name \in @ THEN (@ \ {old.name}) \cup {new.name}
                                  ELSE @]]
            /\ last' = Reply(c.op, "admin", 1, ask, "ok",
                             <<[name |-> new.name, category |-> new.category,
                                speech_count |-> get_tag_speech_count(old.name)]>>)

tag_commit ==
    /\ tagcall # None
    /\ tagcall' = None
    /\ IF tagcall[1].op = "create_tag" THEN create_tag_commit(tagcall[1])
       ELSE update_tag_commit(tagcall[1])
    /\ UNCHANGED <<speeches, now, uploads, storage, imports, gameVars, accountVars>>

\* DELETE /admin/tags/{tag_id}: 404, the 409 protection, then db.delete(tag).
\* Tag.speeches is the backref of Speech.tags and has no delete cascade: the
\* tag's speech_tags rows go, the speeches stay.
delete_tag(target, force) ==
    /\ LET speech_count == get_tag_speech_count(target)
       IN IF ~TagExists(target)
          THEN /\ last' = Reply("delete_tag", "admin", 1, <<target, force>>,
                                "NotFound", None)
               /\ UNCHANGED <<tags, catalog>>
          ELSE IF speech_count > 0 /\ ~force
          THEN /\ last' = Reply("delete_tag", "admin", 1, <<target, force>>,
                                "Conflict", None)
               /\ UNCHANGED <<tags, catalog>>
          ELSE /\ tags' = { t \in tags : t.name # target }
               /\ catalog' = [sp \in DOMAIN catalog |->
                                 [catalog[sp] EXCEPT !.tags = @ \ {target}]]
               /\ last' = Reply("delete_tag", "admin", 1, <<target, force>>,
                                "ok", <<speech_count>>)
    /\ UNCHANGED <<speeches, now, uploads, storage, imports, tagcall, gameVars, accountVars>>

\* ------------------------------------------------------- game sessions
\* The columns of GameSession besides id and selected_tags.
GameSessionColumns ==
    {"user_id", "mode", "level", "total_speeches", "correct_count", "incorrect_count",
     "skipped_count", "avg_pronunciation_score", "avg_accuracy_score",
     "avg_fluency_score", "completed_at"}

\* GameSession(...) as create_session builds it; every session is of level A1
\* and selected_tags is stored and never read by the operations below.
NewSession(u, m, t) ==
    [user_id |-> u, mode |-> m, level |-> "A1",
     total_speeches |-> 0, correct_count |-> 0,
     incorrect_count |-> 0, skipped_count |-> 0,
     avg_pronunciation_score |-> None, avg_accuracy_score |-> None,
     avg_fluency_score |-> None,
     completed_at |-> CompletedAtDefault(t)]

\* sorted(rows, key=sequence_number): Python's sort is stable.
RECURSIVE SortedBySequence(_)
SortedBySequence(rows) ==
    IF rows = <<>> THEN <<>>
    ELSE LET rest == SortedBySequence(Tail(rows))
             r == Head(rows)
             k == Cardinality({ i \in 1..Len(rest) :
                                  rest[i].sequence_number < r.sequence_number })
         IN SubSeq(rest, 1, k) \o <<r>> \o SubSeq(rest, k + 1, Len(rest))

\* _session_to_response, lines 246-262: the GameResultResponse list.
ResultResponses(rows) ==
    [i \in 1..Len(rows) |->
        [speech_id |-> SortedBySequence(rows)[i].speech_id,
         sequence_number |-> SortedBySequence(rows)[i].sequence_number]]

\* _session_to_response reads session.created_at, which GameSession does not
\* declare: every conversion of a session ends in an AttributeError, after the
\* result list was built.  rows are the loaded session.results.
session_to_response(s, include_results, rows) ==
    IF "created_at" \notin GameSessionColumns
    THEN [outcome |-> "AttributeError", body |-> None]
    ELSE [outcome |-> "ok",
          body |-> <<[session |-> s,
                      results |-> IF include_results /\ rows # <<>>
                                  THEN <<ResultResponses(rows)>> ELSE None]>>]

\* The rows of table game_results rs that belong to session sid.
SessionResults(rs, sid) == SelectSeq(rs, LAMBDA r : r.session_id = sid)

\* create_session: add, commit, refresh, then the response conversion.  The row
\* is committed before the conversion fails.
create_session(u, m) ==
    /\ Len(sessions) < MaxSessions
    /\ sessions' = Append(sessions, NewSession(u, m, clock))
    /\ clock' = clock + 1
    /\ LET r == session_to_response(sessions'[Len(sessions')], FALSE, <<>>)
       IN last' = Reply("create_session", u, Len(sessions'), None, r.outcome, r.body)
    /\ UNCHANGED <<schema, speeches, results, calls, budget, pool, catalog, importVars, accountVars>>

\* The SELECT without its user_id condition.
FetchSessionAnyOwner(u, sid) ==
    IF sid \in DOMAIN sessions THEN <<sessions[sid]>> ELSE None

\* select(GameSession).where(id == session_id, user_id == user.id).scalar_one_or_none()
\* The row is returned boxed: <<row>>, or None.
FetchSession(u, sid) ==
    IF sid \in DOMAIN sessions /\ sessions[sid].user_id = u THEN <<sessions[sid]>> ELSE None

\* The completed_at check left out.
TruthyNever(v) == FALSE

\* `if session.completed_at`: None is falsy, every datetime is truthy.
Truthy(v) == v # None

\* get_session_by_id: None when no row of the caller has this id, which is the
\* service's not-found answer (get_game_session turns it into 404 Not Found).
get_session_by_id(u, sid, include_results) ==
    IF FetchSession(u, sid) = None THEN [outcome |-> "NotFound", body |-> None]
    ELSE session_to_response(FetchSession(u, sid)[1], include_results,
                             SessionResults(results, sid))

get_session(u, sid, include_results) ==
    /\ LET r == get_session_by_id(u, sid, include_results)
       IN last' = Reply("get_session", u, sid, <<include_results>>, r.outcome, r.body)
    /\ UNCHANGED <<schema, speeches, sessions, results, clock, calls, budget, pool, catalog, importVars, accountVars>>

\* The sessions of ss, newest first: rows are kept in creation order.
RECURSIVE Reversed(_)
Reversed(ss) == IF ss = <<>> THEN <<>> ELSE Append(Reversed(Tail(ss)), Head(ss))

\* .limit(limit).offset(offset)
Page(ss, limit, offset) ==
    SubSeq(ss, offset + 1, IF Len(ss) < offset + limit THEN Len(ss) ELSE offset + limit)

\* get_user_sessions: the query is built before it runs, and building it reads
\* GameSession.created_at, which the class does not have.
get_user_sessions(u, mode, level, limit, offset) ==
    /\ IF "created_at" \notin GameSessionColumns
       THEN last' = Reply("list_sessions", u, 1, <<mode, level, limit, offset>>,
                          "AttributeError", None)
       ELSE LET hits == SelectSeq(sessions, LAMBDA s :
                            /\ s.user_id = u
                            /\ (mode # None => s.mode = mode[1])
                            /\ (level # None => s.level = level[1]))
                page == Page(Reversed(hits), limit, offset)
                rs == [i \in 1..Len(page) |->
                          session_to_response(page[i], FALSE, <<>>)]
            IN last' = Reply("list_sessions", u, 1, <<mode, level, limit, offset>>,
                             "ok", <<[i \in 1..Len(rs) |-> rs[i].body[1]]>>)
    /\ UNCHANGED <<schema, speeches, sessions, results, clock, calls, budget, pool, catalog, importVars, accountVars>>

\* complete_session, lines 74-88: fetch the session scoped to the caller, then the
\* completed_at check.  A new call takes the first free slot.
complete_session_fetch(p, u, sid, batch) ==
    /\ calls[p].pc = "idle"
    /\ \A q \in DOMAIN calls : q < p => calls[q].pc # "idle"
    /\ budget > 0
    /\ budget' = budget - 1
    /\ LET s == FetchSession(u, sid)
       IN IF s = None
          THEN /\ last' = Response("complete_session", u, sid, "NotFound")
               /\ UNCHANGED calls
          ELSE IF Truthy(s[1].completed_at)
          THEN /\ last' = Response("complete_session", u, sid, "Validation")
               /\ UNCHANGED calls
          ELSE /\ calls' = [calls EXCEPT ![p] =
                    [pc |-> "fetched", user |-> u, session_id |-> sid,
                     results |-> batch, session |-> s]]
               /\ UNCHANGED last
    /\ UNCHANGED <<schema, speeches, sessions, results, clock, pool, catalog, importVars, accountVars>>

\* Only the first referenced speech is looked up.
MissingIdsFirstOnly(batch) ==
    IF batch = <<>> THEN {} ELSE {batch[1].speech_id} \ speeches

\* set(speech_ids) - existing_speech_ids
MissingIds(batch) == { batch[i].speech_id : i \in 1..Len(batch) } \ speeches

\* GameResult.speech_id: NOT NULL foreign key to speeches.id, checked by the
\* database when the rows are inserted.
ForeignKeyHolds(rows) == \A i \in 1..Len(rows) : rows[i].speech_id \in speeches

\* complete_session, lines 90-99: every referenced speech must exist.
complete_session_validate(p) ==
    /\ calls[p].pc = "fetched"
    /\ LET c == calls[p]
       IN IF MissingIds(c.results) # {}
          THEN /\ calls' = [calls EXCEPT ![p] = IdleCall]
               /\ last' = Response("complete_session", c.user, c.session_id, "Validation")
          ELSE /\ calls' = [calls EXCEPT ![p].pc = "validated"]
               /\ UNCHANGED last
    /\ UNCHANGED <<schema, speeches, sessions, results, clock, budget, pool, catalog, importVars, accountVars>>

\* ---------------------------------------------------------- aggregation
\* The rows the loop of lines 109-123 adds to the session, in batch order.
NewResults(sid, batch) ==
    [i \in 1..Len(batch) |->
        [session_id |-> sid,
         speech_id |-> batch[i].speech_id,
         sequence_number |-> batch[i].sequence_number,
         user_response |-> batch[i].user_response,
         pronunciation_score |-> batch[i].pronunciation_score,
         accuracy_score |-> batch[i].accuracy_score,
         fluency_score |-> batch[i].fluency_score]]

\* Lines 126-131: one counter per user_response value.
CountResponse(batch, ur) ==
    Cardinality({ i \in 1..Len(batch) : batch[i].user_response = ur })

\* Lines 133-140: the scores are collected for listen_and_repeat sessions only,
\* and only where the field is not None.
CollectScores(mode, batch, field) ==
    IF mode = "listen_and_repeat"
    THEN SelectSeq([i \in 1..Len(batch) |-> batch[i][field]], LAMBDA v : v # None)
    ELSE <<>>

RECURSIVE Sum(_)
Sum(xs) == IF xs = <<>> THEN 0 ELSE Head(xs)[1] + Sum(Tail(xs))

RECURSIVE Gcd(_, _)
Gcd(a, b) == IF b = 0 THEN a ELSE Gcd(b, a % b)

\* sum(scores) / len(scores) of a non-empty list, as a fraction in lowest terms.
Mean(xs) ==
    LET g == Gcd(Sum(xs), Len(xs))
    IN <<Sum(xs) \div g, Len(xs) \div g>>

\* Lines 142-157: the attribute values of the session object after the loop.  An
\* average is assigned only when its list is not empty.
Completed(s, batch, t) ==
    LET ps == CollectScores(s.mode, batch, "pronunciation_score")
        as == CollectScores(s.mode, batch, "accuracy_score")
        fs == CollectScores(s.mode, batch, "fluency_score")
    IN [s EXCEPT
            !.total_speeches = Len(batch),
            !.correct_count = CountResponse(batch, "correct"),
            !.incorrect_count = CountResponse(batch, "incorrect"),
            !.skipped_count = CountResponse(batch, "skipped"),
            !.completed_at = Datetime(t),
            !.avg_pronunciation_score = IF ps # <<>> THEN Mean(ps) ELSE @,
            !.avg_accuracy_score = IF as # <<>> THEN Mean(as) ELSE @,
            !.avg_fluency_score = IF fs # <<>> THEN Mean(fs) ELSE @]

\* The UPDATE the flush emits for the session object: it sets the columns whose
\* value differs from the value loaded by the SELECT, and leaves the other columns
\* of the stored row as they are.
Flush(row, loaded, obj) ==
    [f \in DOMAIN row |-> IF obj[f] # loaded[f] THEN obj[f] ELSE row[f]]

\* complete_session, lines 101-170: the results and the session UPDATE are flushed
\* and committed in one transaction.  A result whose speech is gone by now breaks
\* the foreign key and the commit fails as a whole.  After the commit the response
\* conversion runs.
complete_session_commit(p) ==
    /\ calls[p].pc = "validated"
    /\ LET c == calls[p]
           sid == c.session_id
           loaded == c.session[1]
       IN IF ~ForeignKeyHolds(NewResults(sid, c.results))
          THEN /\ last' = Response("complete_session", c.user, sid, "IntegrityError")
               /\ UNCHANGED <<sessions, results, clock>>
          ELSE /\ results' = results \o NewResults(sid, c.results)
               /\ sessions' = [sessions EXCEPT ![sid] =
                                  Flush(@, loaded, Completed(loaded, c.results, clock))]
               /\ clock' = clock + 1
               /\ LET r == session_to_response(sessions'[sid], TRUE,
                                                SessionResults(results', sid))
                  IN last' = Reply("complete_session", c.user, sid, None,
                                   r.outcome, r.body)
    /\ calls' = [calls EXCEPT ![p] = IdleCall]
    /\ UNCHANGED <<schema, speeches, budget, pool, catalog, importVars, accountVars>>

\* ----------------------------------------------------------------- strings
\* A string is the sequence of its pieces: single characters such as " ", "."
\* and ",", and runs of other characters such as "a", "mp3" or "hello".
\* str.lower() and str.upper(), piece by piece.
LowerPiece(c) ==
    CASE c = "MP3" -> "mp3" [] c = "B1" -> "b1" [] c = "A1" -> "a1" [] c = "Z9" -> "z9"
      [] c = "QUESTION" -> "question" [] c = "ANSWER" -> "answer" [] c = "QUIZ" -> "quiz"
      [] OTHER -> c

UpperPiece(c) ==
    CASE c = "mp3" -> "MP3" [] c = "b1" -> "B1" [] c = "a1" -> "A1" [] c = "z9" -> "Z9"
      [] c = "question" -> "QUESTION" [] c = "answer" -> "ANSWER" [] c = "quiz" -> "QUIZ"
      [] OTHER -> c

Lower(str) == [i \in 1..Len(str) |-> LowerPiece(str[i])]

Upper(str) == [i \in 1..Len(str) |-> UpperPiece(str[i])]

\* str.strip(): the blanks at both ends go.
RECURSIVE Strip(_)
Strip(str) ==
    IF str # <<>> /\ Head(str) = " " THEN Strip(Tail(str))
    ELSE IF str # <<>> /\ str[Len(str)] = " " THEN Strip(SubSeq(str, 1, Len(str) - 1))
    ELSE str

\* The position of the last piece c of str, 0 if there is none.
LastIndex(str, c) ==
    IF \E i \in 1..Len(str) : str[i] = c
    THEN CHOOSE i \in 1..Len(str) : str[i] = c /\ \A j \in (i + 1)..Len(str) : str[j] # c
    ELSE 0

\* len() of the pieces tag names are made of.
PieceChars(c) ==
    CASE c = LongPiece -> 101
      [] c = "present_simple" -> 14
      [] c = "daily_life" -> 10
      [] OTHER -> 1

RECURSIVE Chars(_)
Chars(str) == IF str = <<>> THEN 0 ELSE PieceChars(Head(str)) + Chars(Tail(str))

\* str.split(","): the parts between the commas, in order.
RECURSIVE Split(_, _)
Split(str, c) ==
    IF \A i \in 1..Len(str) : str[i] # c THEN <<str>>
    ELSE LET k == CHOOSE i \in 1..Len(str) : str[i] = c /\ \A j \in 1..(i - 1) : str[j] # c
         IN <<SubSeq(str, 1, k - 1)>> \o Split(SubSeq(str, k + 1, Len(str)), c)

\* ------------------------------------------------------------ audio upload
ALLOWED_EXTENSIONS == { <<".", "mp3">>, <<".", "wav">>, <<".", "m4a">> }

UnlimitedFileSize == 1024 * 1024 * 1024

MAX_FILE_SIZE == 10 * 1024 * 1024

\* _get_file_extension: the lowercase extension with its dot, "" without a dot.
get_file_extension(filename) ==
    IF LastIndex(filename, ".") = 0 THEN <<>>
    ELSE <<".">> \o Lower(SubSeq(filename, LastIndex(filename, ".") + 1, Len(filename)))

\* dict[key] = value
Put(map, key, value) ==
    [k \in DOMAIN map \cup {key} |-> IF k = key THEN value ELSE map[k]]

\* StorageService.upload_audio: the object key and the URL returned for it.
StorageKeyOfFirstSession(session_id, upload_filename) ==
    <<"speeches/", "uploads/", "1", "/">> \o upload_filename

StorageKey(session_id, upload_filename) ==
    <<"speeches/", "uploads/", ToString(session_id), "/">> \o upload_filename

\* The loop of upload_audio_files over the files that are left.  acc is the state
\* of the call: the session's file map, filename_counts, the keys put in storage,
\* the UploadedFile list, and whether a ValueError was raised.
RECURSIVE UploadLoop(_, _, _)
UploadLoop(files, session_id, acc) ==
    IF files = <<>> THEN acc
    ELSE LET f == Head(files)
             file_ext == get_file_extension(f.filename)
             seen == f.filename \in DOMAIN acc.counts
             count == IF seen THEN acc.counts[f.filename] + 1 ELSE 0
             name_without_ext == SubSeq(f.filename, 1, LastIndex(f.filename, ".") - 1)
             upload_filename ==
                 IF seen THEN name_without_ext \o <<"_", ToString(count)>> \o file_ext
                 ELSE f.filename
             storage_url == StorageKey(session_id, upload_filename)
             uploaded_file == [original_filename |-> f.filename,
                               storage_url |-> storage_url, size_bytes |-> f.size]
         IN IF file_ext \notin ALLOWED_EXTENSIONS \/ f.size > MAX_FILE_SIZE
            THEN [acc EXCEPT !.raised = TRUE]
            ELSE UploadLoop(Tail(files), session_id,
                     [files |-> Put(acc.files, f.filename, uploaded_file),
                      counts |-> Put(acc.counts, f.filename, count),
                      stored |-> acc.stored \cup {storage_url},
                      uploaded |-> Append(acc.uploaded, uploaded_file),
                      raised |-> FALSE])

NoFiles == [x \in {} |-> x]

\* POST /admin/import/audio with ImportService.upload_audio_files.  The session id
\* is a fresh uuid: the next index of uploads, used up also by a call that fails.
upload_audio_files(files) ==
    /\ Len(uploads) < MaxUploads
    /\ IF files = <<>>
       THEN /\ last' = Response("upload_audio_files", "admin", 1, "Validation")
            /\ UNCHANGED <<uploads, storage>>
       ELSE LET session_id == Len(uploads) + 1
                r == UploadLoop(files, session_id,
                        [files |-> NoFiles, counts |-> NoFiles, stored |-> {},
                         uploaded |-> <<>>, raised |-> FALSE])
            IN /\ storage' = storage \cup r.stored
               /\ IF r.raised
                  THEN /\ uploads' = Append(uploads, None)
                       /\ last' = Reply("upload_audio_files", "admin", session_id,
                                        <<files>>, "Validation", None)
                  ELSE /\ uploads' = Append(uploads,
                                       <<[created_at |-> now, files |-> r.files]>>)
                       /\ last' = Reply("upload_audio_files", "admin", session_id,
                                        <<files>>, "ok",
                                        <<[upload_session_id |-> session_id,
                                           uploaded_files |-> r.uploaded]>>)
    /\ UNCHANGED <<speeches, catalog, now, tags, imports, tagcall, gameVars, accountVars>>

\* ------------------------------------------------------------ random speeches
\* SpeechService.get_random_speeches: the optional level and type filters; with
\* a non-empty tag_ids, the speeches whose number of speech_tags rows with
\* tag_id IN tag_ids equals len(tag_ids); then limit of them in random order.
\* A tag is identified by its name, a speech has one speech_tags row per tag.
Matching(level, type, tag_ids) ==
    { s \in DOMAIN catalog :
        /\ (level # None => catalog[s].level = level[1])
        /\ (type # None => catalog[s].type = type[1])
        /\ (tag_ids # <<>> =>
              Cardinality({ t \in catalog[s].tags :
                              \E i \in 1..Len(tag_ids) : tag_ids[i] = t })
                  = Len(tag_ids)) }

Min(a, b) == IF a < b THEN a ELSE b

get_random_speeches(level, type, tag_ids, limit) ==
    /\ \E pick \in SUBSET Matching(level, type, tag_ids) :
          /\ Cardinality(pick) = Min(limit, Cardinality(Matching(level, type, tag_ids)))
          /\ last' = Reply("get_random_speeches", "u1", 1,
                           <<level, type, tag_ids, limit>>, "ok", <<pick>>)
    /\ UNCHANGED <<speeches, catalog, importVars, gameVars, accountVars>>

\* -------------------------------------------------------------- CSV import
\* row.get(column, default) on a csv.DictReader row: a column the header lacks
\* gives the default, a cell the row is too short for gives None.  Cells and
\* defaults are boxed.
Get(row, column, default) == IF column \in DOMAIN row THEN row[column] ELSE default

GetFileOfAnySession(session, filename) ==
    LET holders == { i \in DOMAIN uploads :
                       uploads[i] # None /\ filename \in DOMAIN uploads[i][1].files }
    IN IF holders = {} THEN None
       ELSE <<uploads[CHOOSE i \in holders : \A j \in holders : i <= j][1]
                  .files[filename]>>

\* UploadSession.get_file: the UploadedFile boxed, or None.
get_file(session, filename) ==
    IF filename \in DOMAIN session.files THEN <<session.files[filename]>> ELSE None

LevelNames == {"A1", "A2", "B1", "B2", "C1"}

SpeechTypeNames == {"QUESTION", "ANSWER"}

\* [t.strip() for t in tags_str.split(",") if t.strip()]
TagNames(tags_str) ==
    LET parts == Split(tags_str, ",")
        kept == SelectSeq(parts, LAMBDA t : Strip(t) # <<>>)
    IN [i \in 1..Len(kept) |-> Strip(kept[i])]

Raise(kind) == [raised |-> kind]

\* _parse_csv_row: the parsed row, or the exception it raises.  None.strip() is
\* an AttributeError, every failed check a ValueError.
parse_csv_row(row, row_num, session, seen_filenames) ==
    LET filename_cell == Get(row, "audio_filename", << <<>> >>)
        text_cell == Get(row, "text", << <<>> >>)
        level_cell == Get(row, "level", << <<>> >>)
        type_cell == Get(row, "type", << <<"answer">> >>)
        tags_cell == Get(row, "tags", << <<>> >>)
    IN IF filename_cell = None THEN Raise("AttributeError")
       ELSE LET audio_filename == Strip(filename_cell[1])
            IN IF audio_filename = <<>> THEN Raise("ValueError")
               ELSE IF audio_filename \in seen_filenames THEN Raise("ValueError")
               ELSE IF get_file(session, audio_filename) = None THEN Raise("ValueError")
               ELSE IF text_cell = None THEN Raise("AttributeError")
               ELSE IF Strip(text_cell[1]) = <<>> THEN Raise("ValueError")
               ELSE IF level_cell = None THEN Raise("AttributeError")
               ELSE LET level_str == Upper(Strip(level_cell[1]))
                    IN IF level_str = <<>> THEN Raise("ValueError")
                       ELSE IF ~(Len(level_str) = 1 /\ level_str[1] \in LevelNames)
                       THEN Raise("ValueError")
                       ELSE IF type_cell = None THEN Raise("AttributeError")
                       ELSE LET type_str == Lower(Strip(type_cell[1]))
                            IN IF type_str # <<>> /\
                                  ~(Len(type_str) = 1
                                        /\ UpperPiece(type_str[1]) \in SpeechTypeNames)
                               THEN Raise("ValueError")
                               ELSE IF tags_cell = None THEN Raise("AttributeError")
                               ELSE [raised |-> "no",
                                     row_num |-> row_num,
                                     audio_url |->
                                         get_file(session, audio_filename)[1].storage_url,
                                     text |-> Strip(text_cell[1]),
                                     level |-> level_str[1],
                                     type |-> IF type_str = <<>> THEN "answer"
                                              ELSE type_str[1],
                                     tag_names |-> TagNames(Strip(tags_cell[1]))]

\* The validation loop of import_csv, lines 271-282, over the rows that are left:
\* a ValueError becomes the row's error, any other exception leaves the loop.
\* seen_filenames gets the cell as it is in the CSV.
RECURSIVE ValidateRows(_, _, _, _)
ValidateRows(rows, row_num, session, acc) ==
    IF rows = <<>> \/ acc.raised # "no" THEN acc
    ELSE LET r == parse_csv_row(Head(rows), row_num, session, acc.seen)
         IN ValidateRows(Tail(rows), row_num + 1, session,
               IF r.raised = "no"
               THEN [acc EXCEPT !.rows = Append(@, r),
                                !.seen = @ \cup {Head(rows)["audio_filename"][1]}]
               ELSE IF r.raised = "ValueError"
               THEN [acc EXCEPT !.errors = Append(@, [row |-> row_num])]
               ELSE [acc EXCEPT !.raised = r.raised])

\* Tag.name is String(100): the flush of a longer name fails.
TagNameMax == 100

\* _get_or_create_tags over the names that are left, inside the transaction tx:
\* a name found in table tags is reused, another is added with category
\* "imported" and flushed.
RECURSIVE get_or_create_tags(_, _)
get_or_create_tags(tag_names, tx) ==
    IF tag_names = <<>> \/ tx.failed THEN tx
    ELSE get_or_create_tags(Tail(tag_names),
            IF \E t \in tx.tags : t.name = Head(tag_names) THEN tx
            ELSE IF Chars(Head(tag_names)) > TagNameMax
            THEN [tx EXCEPT !.failed = TRUE]
            ELSE [tx EXCEPT !.tags = @ \cup {[name |-> Head(tag_names),
                                             category |-> "imported"]}])

\* speech_tags has the primary key (speech_id, tag_id): a tag listed twice for one
\* speech is inserted twice and the flush fails.
FlushFails(tag_names) ==
    \E i, j \in 1..Len(tag_names) : i # j /\ tag_names[i] = tag_names[j]

\* The creation loop of import_csv, lines 292-314, over the parsed rows that are
\* left.  tx is the state of the open transaction.
RECURSIVE CreateSpeeches(_, _)
CreateSpeeches(rows, tx) ==
    IF rows = <<>> \/ tx.failed THEN tx
    ELSE LET r == Head(rows)
             withTags == get_or_create_tags(r.tag_names, tx)
             id == withTags.next_id
         IN IF withTags.failed \/ FlushFails(r.tag_names)
            THEN [withTags EXCEPT !.failed = TRUE]
            ELSE CreateSpeeches(Tail(rows),
                    [withTags EXCEPT
                        !.speeches = Put(@, id,
                            [audio_url |-> r.audio_url, text |-> r.text,
                             level |-> r.level, type |-> r.type,
                             tags |-> { r.tag_names[i] : i \in 1..Len(r.tag_names) }]),
                        !.created = Append(@, [row |-> r.row_num, speech_id |-> id,
                                               text |-> r.text]),
                        !.next_id = id + 1])

KeepWhatWasFlushed(tx, before) == tx

\* What the transaction leaves in the database when the loop has ended: commit,
\* or rollback after a failure.
CommitOrRollback(tx, before) == IF tx.failed THEN before ELSE tx

\* UploadSession.is_expired
MaxAgeHours == 24

IsExpiredNever(session, max_age_hours) == FALSE

IsExpiredAtAge(session, max_age_hours) == now - session.created_at >= max_age_hours

is_expired(session, max_age_hours) == now - session.created_at > max_age_hours

\* ImportService.cleanup_expired_sessions: the expired sessions leave the
\* registry, and their number is returned.
cleanup_expired_sessions(max_age_hours) ==
    LET expired_sessions == { i \in DOMAIN uploads :
                                /\ uploads[i] # None
                                /\ is_expired(uploads[i][1], max_age_hours) }
    IN /\ uploads' = [i \in DOMAIN uploads |->
                         IF i \in expired_sessions THEN None ELSE uploads[i]]
       /\ last' = Reply("cleanup_expired_sessions", "admin", 1, <<max_age_hours>>,
                        "ok", <<Cardinality(expired_sessions)>>)
       /\ UNCHANGED <<speeches, catalog, now, storage, tags, imports, tagcall, gameVars, accountVars>>

\* The id the database gives the next speech.
NextSpeechId ==
    IF \A x \in DOMAIN catalog : x <= MaxSpeeches THEN MaxSpeeches + 1
    ELSE 1 + CHOOSE x \in DOMAIN catalog : \A y \in DOMAIN catalog : y <= x

\* POST /admin/import/csv with ImportService.import_csv.  csv is the parsed file:
\* the header's columns and the data rows, each a record over those columns.
import_csv(csv, upload_session_id) ==
    /\ imports > 0
    /\ imports' = imports - 1
    /\ LET known == upload_session_id \in DOMAIN uploads
                        /\ uploads[upload_session_id] # None
           ask == <<csv, upload_session_id>>
       IN IF ~known
          THEN /\ last' = Reply("import_csv", "admin", 1, ask, "Validation", None)
               /\ UNCHANGED <<speeches, catalog, tags>>
          ELSE IF is_expired(uploads[upload_session_id][1], MaxAgeHours)
          THEN /\ last' = Reply("import_csv", "admin", 1, ask, "Validation", None)
               /\ UNCHANGED <<speeches, catalog, tags>>
          ELSE IF ~(RequiredColumns \subseteq csv.header)
          THEN /\ last' = Reply("import_csv", "admin", 1, ask, "Validation", None)
               /\ UNCHANGED <<speeches, catalog, tags>>
          ELSE LET v == ValidateRows(csv.rows, 2, uploads[upload_session_id][1],
                                     [rows |-> <<>>, errors |-> <<>>, seen |-> {},
                                      raised |-> "no"])
                   before == [speeches |-> catalog, tags |-> tags, created |-> <<>>,
                              next_id |-> NextSpeechId, failed |-> FALSE]
                   tx == CreateSpeeches(v.rows, before)
                   after == CommitOrRollback(tx, before)
               IN IF v.raised # "no"
                  THEN /\ last' = Reply("import_csv", "admin", 1, ask, v.raised, None)
                       /\ UNCHANGED <<speeches, catalog, tags>>
                  ELSE IF v.errors # <<>>
                  THEN /\ last' = Reply("import_csv", "admin", 1, ask, "ok",
                                        <<[created_speeches |-> <<>>,
                                           validation_errors |-> v.errors]>>)
                       /\ UNCHANGED <<speeches, catalog, tags>>
                  ELSE /\ catalog' = after.speeches
                       /\ speeches' = DOMAIN after.speeches
                       /\ tags' = after.tags
                       /\ last' = IF tx.failed
                                  THEN Reply("import_csv", "admin", 1, ask,
                                             "Validation", None)
                                  ELSE Reply("import_csv", "admin", 1, ask, "ok",
                                             <<[created_speeches |-> tx.created,
                                                validation_errors |-> <<>>]>>)
    /\ UNCHANGED <<now, uploads, storage, tagcall, gameVars, accountVars>>

\* Time passes, half a day at a time.
tick ==
    /\ now + MaxAgeHours \div 2 <= MaxNow
    /\ now' = now + MaxAgeHours \div 2
    /\ UNCHANGED <<speeches, catalog, uploads, storage, tags, imports, tagcall, last, gameVars, accountVars>>

\* --------------------------------------------------------------- accounts
\* What the clients of the account endpoints send.  RegisterRequest and
\* LoginRequest carry an email and a password; a SocialAuthRequest carries the
\* provider, a token and an Optional email.  The token stands for what the
\* provider answers for it: None when it refuses the token, else the provider's
\* user id and the Optional email of the profile.
EmailsSent == { "john.doe@example.com", "bob.wilson@gmail.com" }

PasswordsSent == { "Password123!", "SecurePass456!" }

SocialAuthRequest(provider, provider_user, email) ==
    [provider |-> provider, token |-> provider_user, email |-> email]

SocialAuthRequests ==
    { SocialAuthRequest("google", None, None),
      SocialAuthRequest("google", <<[id |-> "google_123456789",
                                     email |-> <<"bob.wilson@gmail.com">>]>>, None),
      SocialAuthRequest("apple", <<[id |-> "apple_987654321", email |-> None]>>, None),
      SocialAuthRequest("apple", <<[id |-> "apple_987654321", email |-> None]>>,
                        <<"john.doe@example.com">>) }

\* The rows of table users that are there.
UserRows == { users[i][1] : i \in { j \in DOMAIN users : users[j] # None } }

\* A lookup that finds no row.
FindNoUser(email) == None

\* select(User).where(User.email == email).scalar_one_or_none(), boxed.
FindByEmail(email) ==
    IF \E u \in UserRows : u.email = email
    THEN <<CHOOSE u \in UserRows : u.email = email>>
    ELSE None

\* select(User).where(auth_provider == provider, auth_provider_id == id)
\*     .scalar_one_or_none(), boxed.
FindByProvider(provider, id) ==
    IF \E u \in UserRows : u.auth_provider = provider /\ u.auth_provider_id = <<id>>
    THEN <<CHOOSE u \in UserRows :
              u.auth_provider = provider /\ u.auth_provider_id = <<id>>>>
    ELSE None

\* User.email is unique=True: the INSERT of a second row with the email fails.
EmailIndexRefuses(email) == \E u \in UserRows : u.email = email

\* get_current_user: the token's subject must be the id of a row of users.
CurrentUsers == { u.id : u \in UserRows }

\* _create_tokens and _user_to_response: the tokens carry the user's id.
AuthResponse(user) ==
    [user |-> [id |-> user.id, email |-> user.email, auth_provider |-> user.auth_provider],
     tokens |-> [access_token |-> <<"access", user.id>>,
                 refresh_token |-> <<"refresh", user.id>>]]

\* A register or social_auth call that passed its checks and is about to add its
\* row.
PendingUser(op, query, email, password_hash, auth_provider, auth_provider_id) ==
    [op |-> op, query |-> query, email |-> email, password_hash |-> password_hash,
     auth_provider |-> auth_provider, auth_provider_id |-> auth_provider_id]

\* register, lines 50-66: the SELECT by email, the refusal, the new User object.
register_check(email, password) ==
    /\ IF FindByEmail(email) # None
       THEN /\ last' = Reply("register", "anonymous", 1, <<email, password>>,
                             "Email already registered", None)
            /\ UNCHANGED authcalls
       ELSE /\ Len(users) + Len(authcalls) < MaxUsers
            /\ authcalls' = Append(authcalls,
                  PendingUser("register", <<email, password>>, email,
                              <<hash_password(password)>>, "email", None))
            /\ UNCHANGED last
    /\ UNCHANGED <<users, speeches, catalog, importVars, gameVars>>

\* social_auth, lines 126-173: the token is validated, the email is the
\* provider's or else the request's, a user of this provider id is signed in, and
\* a new user is refused when the email belongs to a row.
social_auth_check(data) ==
    /\ LET ask == <<data.provider, data.token, data.email>>
           Fail(detail) ==
               /\ last' = Reply("social_auth", "anonymous", 1, ask, detail, None)
               /\ UNCHANGED authcalls
       IN IF data.token = None THEN Fail("Invalid token")
          ELSE LET provider_user == data.token[1]
                   email == IF provider_user.email # None THEN provider_user.email
                            ELSE data.email
                   user == FindByProvider(data.provider, provider_user.id)
               IN IF email = None
                  THEN Fail("Email is required for social authentication")
                  ELSE IF user # None
                  THEN /\ last' = Reply("social_auth", user[1].id, 1, ask, "ok",
                                        <<AuthResponse(user[1])>>)
                       /\ UNCHANGED authcalls
                  ELSE IF FindByEmail(email[1]) # None
                  THEN Fail("Email already registered with "
                            \o FindByEmail(email[1])[1].auth_provider \o " provider")
                  ELSE /\ Len(users) + Len(authcalls) < MaxUsers
                       /\ authcalls' = Append(authcalls,
                             PendingUser("social_auth", ask, email[1], None,
                                         data.provider, <<provider_user.id>>))
                       /\ UNCHANGED last
    /\ UNCHANGED <<users, speeches, catalog, importVars, gameVars>>

\* register, lines 68-77, and social_auth, lines 168-179: db.add, commit, refresh,
\* the tokens.  The unique index on users.email decides at the commit; its
\* IntegrityError is not caught.
auth_commit(i) ==
    /\ i \in DOMAIN authcalls
    /\ LET c == authcalls[i]
           user == UserRow(Len(users) + 1, c.email, c.password_hash,
                           c.auth_provider, c.auth_provider_id)
       IN IF EmailIndexRefuses(c.email)
          THEN /\ last' = Reply(c.op, "anonymous", 1, c.query, "IntegrityError", None)
               /\ UNCHANGED users
          ELSE /\ users' = Append(users, <<user>>)
               /\ last' = Reply(c.op, user.id, 1, c.query, "ok", <<AuthResponse(user)>>)
    /\ authcalls' = [j \in 1..(Len(authcalls) - 1) |->
                        IF j < i THEN authcalls[j] ELSE authcalls[j + 1]]
    /\ UNCHANGED <<speeches, catalog, importVars, gameVars>>

\* login, lines 91-112.
login(email, password) ==
    /\ LET user == FindByEmail(email)
           Answer(u, detail, body) ==
               last' = Reply("login", u, 1, <<email, password>>, detail, body)
       IN IF user = None
          THEN Answer("anonymous", "Invalid email or password", None)
          ELSE IF user[1].password_hash = None
          THEN Answer("anonymous", "Cannot login with password for OAuth account", None)
          ELSE IF ~verify_password(password, user[1].password_hash[1])
          THEN Answer("anonymous", "Invalid email or password", None)
          ELSE Answer(user[1].id, "ok", <<AuthResponse(user[1])>>)
    /\ UNCHANGED <<speeches, catalog, importVars, gameVars, accountVars>>

\* delete_account: db.delete(user) and commit.  User.game_sessions is the backref
\* of GameSession.user, without delete cascade and without passive_deletes: the
\* flush sets user_id of the user's sessions to NULL, the column is NOT NULL, and
\* the commit fails.  A user without sessions is deleted.
delete_account(u) ==
    /\ u \in CurrentUsers
    /\ IF \E sid \in DOMAIN sessions : sessions[sid].user_id = u
       THEN /\ last' = Response("delete_account", u, 1, "IntegrityError")
            /\ UNCHANGED users
       ELSE /\ users' = [i \in DOMAIN users |->
                            IF users[i] # None /\ users[i][1].id = u THEN None
                            ELSE users[i]]
            /\ last' = Response("delete_account", u, 1, "ok")
    /\ UNCHANGED <<authcalls, speeches, catalog, importVars, gameVars>>

\* ------------------------------------------------- pronunciation scoring
\* What recognize_once reports for the audio (result.reason), or the exception
\* the SDK raises instead.
Recognitions == { "RecognizedSpeech", "NoMatch", "Canceled", "SdkException" }

\* How the provider is set up: speechsdk.SpeechConfig raises for an empty key.
ProviderSetups == { "configured", "no key" }

\* The content types of the uploaded part; a string is the sequence of its pieces.
ContentTypes == { None, <<<<"text/", "plain">>>>, <<<<"audio/", "wav">>>> }

\* The scoring requests sent: <<content type, setup, recognition>>.
ScoringRequests ==
    { <<ct, "configured", "RecognizedSpeech">> : ct \in ContentTypes }
    \cup { <<<<<<"audio/", "wav">>>>, "configured", r>> : r \in Recognitions }
    \cup { <<<<<<"audio/", "wav">>>>, "no key", "RecognizedSpeech">> }

\* assess_pronunciation, lines 81-107: the result, or the error raised.
assess_pronunciation(recognition) ==
    IF recognition = "RecognizedSpeech"
    THEN [raised |-> None, message |-> "none"]
    ELSE IF recognition = "NoMatch"
    THEN [raised |-> <<"SpeechProcessingError">>,
          message |-> "No speech detected in audio"]
    ELSE IF recognition = "Canceled"
    THEN [raised |-> <<"SpeechProcessingError">>,
          message |-> "Speech recognition canceled: Error"]
    ELSE [raised |-> <<"SpeechProcessingError">>,
          message |-> "Azure Speech API error: RuntimeError"]

\* score_pronunciation: the content type check, get_speech_provider, the
\* assessment, and the two except clauses.  The answer is the status, and in the body the exception the
\* endpoint caught and the detail it sends.
score_pronunciation(u, content_type, setup, recognition) ==
    /\ u \in CurrentUsers
    /\ LET ask == <<content_type, setup, recognition>>
           r == IF setup = "configured" THEN assess_pronunciation(recognition)
                ELSE [raised |-> <<"ValueError">>, message |-> "subscription key"]
       IN IF content_type = None \/ Head(content_type[1]) # "audio/"
          THEN last' = Reply("score_pronunciation", u, 1, ask, "400",
                             <<[caught |-> None, detail |-> "File must be an audio file"]>>)
          ELSE IF r.raised = None
          THEN last' = Reply("score_pronunciation", u, 1, ask, "200",
                             <<[caught |-> None, detail |-> "none"]>>)
          ELSE IF r.raised = <<"SpeechProcessingError">>
          THEN last' = Reply("score_pronunciation", u, 1, ask, "400",
                             <<[caught |-> r.raised,
                                detail |-> "Speech processing failed: " \o r.message]>>)
          ELSE last' = Reply("score_pronunciation", u, 1, ask, "500",
                             <<[caught |-> r.raised,
                                detail |-> "Unexpected error: " \o r.message]>>)
    /\ UNCHANGED <<speeches, catalog, importVars, gameVars, accountVars>>

\* ------------------------------------------------------------------ Next
Next ==
    \/ \E sp \in SpeechIds : delete_speech(sp)
    \/ \E u \in pool.users, m \in pool.modes : create_session(u, m)
    \/ \E u \in pool.users, sid \in SessionIds, include_results \in pool.include :
          get_session(u, sid, include_results)
    \/ \E u \in pool.users, q \in pool.queries :
          get_user_sessions(u, q[1], q[2], q[3], q[4])
    \/ \E p \in DOMAIN calls, u \in pool.users, sid \in SessionIds,
          batch \in Batches(pool.inputs) :
          complete_session_fetch(p, u, sid, batch)
    \/ \E p \in DOMAIN calls : complete_session_validate(p)
    \/ \E p \in DOMAIN calls : complete_session_commit(p)

Spec == Init /\ [][Next]_vars

SpecAgg == InitAgg /\ [][Next]_vars

\* The bulk import and the speech catalogue, with no game played.
InitImport ==
    /\ users = SeedUsers
    /\ speeches = SpeechIds
    /\ InitDb
    /\ schema = "create_all"
    /\ calls = [p \in {1} |-> IdleCall]
    /\ budget = 0
    /\ pool = [users |-> {"u1"}, modes |-> {"listen_only"}, inputs |-> {},
               queries |-> {}, include |-> {}]

NextImport ==
    \/ \E files \in FileLists : upload_audio_files(files)
    \/ \E csv \in CsvFiles, sid \in 1..MaxUploads : import_csv(csv, sid)
    \/ \E q \in RandomSpeechRequests : get_random_speeches(q[1], q[2], q[3], q[4])
    \/ tick
    \/ \E max_age_hours \in SweepAges : cleanup_expired_sessions(max_age_hours)

SpecImport == InitImport /\ [][NextImport]_vars

\* The tag endpoints next to an import and the deletion of speeches.
NextTags ==
    \/ \E name \in TagNamesSent, category \in TagCategoriesSent :
          tag_check("create_tag", None, <<name>>, <<category>>)
    \/ \E target \in TagNamesSent, name \in {None} \cup { <<n>> : n \in TagNamesSent },
          category \in {None} \cup { <<c>> : c \in TagCategoriesSent } :
          tag_check("update_tag", <<target>>, name, category)
    \/ tag_commit
    \/ \E target \in TagNamesSent, force \in BOOLEAN : delete_tag(target, force)
    \/ \E sp \in SpeechIds : delete_speech(sp)
    \/ \E files \in TagFileLists : upload_audio_files(files)
    \/ \E csv \in TagCsvFiles : import_csv(csv, 1)

SpecTags == InitImport /\ [][NextTags]_vars

\* Uploads of files whose names meet the suffixed names of duplicates.
NextUpload ==
    \/ \E files \in SuffixLists : upload_audio_files(files)
    \/ tick
    \/ \E max_age_hours \in SweepAges : cleanup_expired_sessions(max_age_hours)

SpecUpload == InitImport /\ [][NextUpload]_vars

\* The accounts of a fresh database, the games their users play, and the scoring
\* endpoint.
InitAccount ==
    /\ users = <<>>
    /\ speeches = {1}
    /\ InitDb
    /\ calls = [p \in {1} |-> IdleCall]
    /\ budget = 1
    /\ pool = [users |-> Users, modes |-> {"listen_only"},
               inputs |-> { GameResultInput(1, 1, "correct", None, None, None) },
               queries |-> {}, include |-> {}]

NextAccount ==
    \/ \E email \in EmailsSent, password \in PasswordsSent : register_check(email, password)
    \/ \E data \in SocialAuthRequests : social_auth_check(data)
    \/ \E i \in 1..MaxUsers : auth_commit(i)
    \/ \E email \in EmailsSent, password \in PasswordsSent : login(email, password)
    \/ \E u \in CurrentUsers : delete_account(u)
    \/ \E u \in CurrentUsers, q \in ScoringRequests : score_pronunciation(u, q[1], q[2], q[3])
    \/ \E u \in CurrentUsers, m \in pool.modes : create_session(u, m)
    \/ \E p \in DOMAIN calls, u \in CurrentUsers, sid \in SessionIds,
          batch \in Batches(pool.inputs) :
          complete_session_fetch(p, u, sid, batch)
    \/ \E p \in DOMAIN calls : complete_session_validate(p)
    \/ \E p \in DOMAIN calls : complete_session_commit(p)

SpecAccount == InitAccount /\ [][NextAccount]_vars

\* ---------------------------------------------------------------- claims
RowsOf(sid) == SelectSeq(results, LAMBDA r : r.session_id = sid)

IsCompleted(sid) == sessions[sid].completed_at # None

Owns(u, sid) == sid \in DOMAIN sessions /\ sessions[sid].user_id = u

HasUnknownSpeech(batch) == \E i \in 1..Len(batch) : batch[i].speech_id \notin speeches

\* This step is the first step of a complete_session call of u for sid: the call
\* either ends in it (its response is `last`) or occupies a slot after it.
Starts(u, sid) ==
    /\ budget' = budget - 1
    /\ \/ /\ calls' = calls
          /\ last'.op = "complete_session"
          /\ last'.user = u
          /\ last'.session_id = sid
       \/ \E p \in DOMAIN calls :
            /\ calls'[p] # calls[p]
            /\ calls'[p].user = u
            /\ calls'[p].session_id = sid

\* C1: a complete_session call made by the owner on a session that is already
\* completed ends in a Validation error, whatever its batch, and leaves the
\* session row (counters, averages, completed_at) and the stored result rows
\* exactly as they were.
C1_SecondCompletionRejected ==
    [][\A u \in Users, sid \in DOMAIN sessions :
          (Starts(u, sid) /\ Owns(u, sid) /\ IsCompleted(sid)) =>
              /\ calls' = calls
              /\ last' = Response("complete_session", u, sid, "Validation")
              /\ sessions' = sessions
              /\ results' = results]_vars

\* A session completed by a first call, with its results stored, on which a later
\* call of the owner was rejected (no speech was deleted, so the rejection is the
\* completed_at check).
C1_Witness ==
    \E sid \in DOMAIN sessions :
        /\ IsCompleted(sid)
        /\ Len(RowsOf(sid)) > 0
        /\ speeches = SpeechIds
        /\ last = Response("complete_session", sessions[sid].user_id, sid, "Validation")

\* C2: a call whose batch names a speech that is not in the content store ends in
\* a Validation error at the speech check and writes nothing, neither then nor
\* in its first step: the session row and the result rows are unchanged, so a
\* session that is still in progress has no result rows and stays in progress.
C2_UnknownSpeechRejectsBatch ==
    [][\A p \in DOMAIN calls :
          /\ (calls[p].pc = "idle" /\ calls'[p].pc # "idle") =>
                (sessions' = sessions /\ results' = results)
          /\ (calls[p].pc = "fetched" /\ calls'[p] # calls[p]
                /\ HasUnknownSpeech(calls[p].results)) =>
                /\ calls'[p].pc = "idle"
                /\ last' = Response("complete_session", calls[p].user,
                                    calls[p].session_id, "Validation")
                /\ sessions' = sessions
                /\ results' = results
                /\ (~IsCompleted(calls[p].session_id) =>
                        /\ RowsOf(calls[p].session_id) = <<>>
                        /\ sessions'[calls[p].session_id].total_speeches = 0
                        /\ sessions'[calls[p].session_id].completed_at = None)]_vars

\* A call on a session in progress was rejected for its batch: a speech is gone,
\* the session is still in progress and has no rows.
C2_Witness ==
    \E sid \in DOMAIN sessions :
        /\ ~IsCompleted(sid)
        /\ RowsOf(sid) = <<>>
        /\ speeches # SpeechIds
        /\ last = Response("complete_session", sessions[sid].user_id, sid, "Validation")

\* This step is the commit of call p: its rows and its session update are stored.
Commits(p) ==
    /\ calls[p].pc = "validated"
    /\ calls'[p].pc = "idle"
    /\ clock' # clock

\* C3: of two complete_session calls running concurrently on one in-progress
\* session exactly one stores its batch: a call never commits on a session that
\* another call has completed in the meantime, so the session never holds the
\* results of both batches.
C3_OneCompletionPerSession ==
    [][\A p \in DOMAIN calls :
          Commits(p) =>
              /\ ~IsCompleted(calls[p].session_id)
              /\ RowsOf(calls[p].session_id) = <<>>]_vars

\* C4: in every committed state a completed session has exactly total_speeches
\* result rows and a session in progress has none.
C4_ResultsMatchCompletion ==
    \A sid \in DOMAIN sessions :
        IF IsCompleted(sid)
        THEN Len(RowsOf(sid)) = sessions[sid].total_speeches
        ELSE RowsOf(sid) = <<>>

\* C5: the row create_session stores is in progress: the four counters are zero
\* and completed_at is null.
C5_CreatedInProgress ==
    [][Len(sessions') > Len(sessions) =>
          LET s == sessions'[Len(sessions')]
          IN /\ s.completed_at = None
             /\ s.total_speeches = 0
             /\ s.correct_count = 0
             /\ s.incorrect_count = 0
             /\ s.skipped_count = 0]_vars

\* C6: completed_at changes at most once and, once it is set, completed_at, the
\* counters and the averages of the session never change again.
C6_WriteOnce ==
    [][\A sid \in DOMAIN sessions :
          IsCompleted(sid) => sessions'[sid] = sessions[sid]]_vars

\* C7: after a call with batch B has committed, total_speeches = Len(B), each
\* counter is the number of entries of B with that response, and the three
\* counters add up to total_speeches.
C7_CountersMatchBatch ==
    [][\A p \in DOMAIN calls :
          Commits(p) =>
              LET B == calls[p].results
                  s == sessions'[calls[p].session_id]
                  n(ur) == Cardinality({ i \in 1..Len(B) : B[i].user_response = ur })
              IN /\ s.total_speeches = Len(B)
                 /\ s.correct_count = n("correct")
                 /\ s.incorrect_count = n("incorrect")
                 /\ s.skipped_count = n("skipped")
                 /\ s.correct_count + s.incorrect_count + s.skipped_count
                        = s.total_speeches]_vars

NonNull(B, field) ==
    SelectSeq([i \in 1..Len(B) |-> B[i][field]], LAMBDA v : v # None)

MeanOrNone(xs) == IF xs = <<>> THEN None ELSE Mean(xs)

\* C8: after a call with batch B has committed, in either mode, each average of
\* the session is the mean of the non-null scores of that kind in B, and null
\* when B carries none.
C8_AveragesAreDataDriven ==
    [][\A p \in DOMAIN calls :
          Commits(p) =>
              LET B == calls[p].results
                  s == sessions'[calls[p].session_id]
              IN /\ s.avg_pronunciation_score
                        = MeanOrNone(NonNull(B, "pronunciation_score"))
                 /\ s.avg_accuracy_score = MeanOrNone(NonNull(B, "accuracy_score"))
                 /\ s.avg_fluency_score = MeanOrNone(NonNull(B, "fluency_score"))]_vars

\* C9: get_session and complete_session answer a caller who does not own the
\* session with NotFound, the answer they give for a session id that does not
\* exist, and change neither the sessions nor the results.
C9_NonOwnerGetsNotFound ==
    [][\A u \in Users, sid \in SessionIds :
          /\ (last' # last /\ last'.op = "get_session" /\ last'.user = u
                /\ last'.session_id = sid /\ ~Owns(u, sid)) =>
                /\ last'.outcome = "NotFound"
                /\ sessions' = sessions
                /\ results' = results
          /\ (Starts(u, sid) /\ ~Owns(u, sid)) =>
                /\ calls' = calls
                /\ last' = Response("complete_session", u, sid, "NotFound")
                /\ sessions' = sessions
                /\ results' = results]_vars

\* A caller was answered NotFound for a session in progress that exists and
\* belongs to another user.
C9_Witness ==
    /\ last.outcome = "NotFound"
    /\ last.op \in {"get_session", "complete_session"}
    /\ last.session_id \in DOMAIN sessions
    /\ sessions[last.session_id].user_id # last.user
    /\ ~IsCompleted(last.session_id)

\* C10: the sequence numbers of the result rows of a session are pairwise
\* distinct and are exactly 1..N for its N rows.
C10_SequenceDense ==
    \A sid \in DOMAIN sessions :
        LET rows == RowsOf(sid)
        IN /\ \A i, j \in 1..Len(rows) :
                 rows[i].sequence_number = rows[j].sequence_number => i = j
           /\ { rows[i].sequence_number : i \in 1..Len(rows) } = 1..Len(rows)

\* L lists each input of batch B once, with its sequence number and speech id,
\* in ascending order of sequence number.
IsBatchInSequenceOrder(L, B) ==
    /\ Len(L) = Len(B)
    /\ \A i \in 1..Len(L) : DOMAIN L[i] = {"speech_id", "sequence_number"}
    /\ \A i, j \in 1..Len(L) : i < j => L[i].sequence_number <= L[j].sequence_number
    /\ \E f \in Permutations(1..Len(B)) :
          \A i \in 1..Len(B) :
              /\ L[i].speech_id = B[f[i]].speech_id
              /\ L[i].sequence_number = B[f[i]].sequence_number

\* C11: the response of a complete_session call that has committed batch B, and
\* the response of the owner's get_session with include_results afterwards,
\* carry a result list with one entry per input of B, sequence number and speech
\* id as sent, in ascending order of sequence number.
C11_ResultsReturnedInSequenceOrder ==
    [][/\ \A p \in DOMAIN calls :
            (Commits(p) /\ calls[p].results # <<>>) =>
                /\ last'.outcome = "ok"
                /\ last'.body # None
                /\ last'.body[1].results # None
                /\ RowsOf(calls[p].session_id) = <<>> =>
                      IsBatchInSequenceOrder(last'.body[1].results[1], calls[p].results)
       /\ (/\ last' # last
           /\ last'.op = "get_session"
           /\ last'.query = <<TRUE>>
           /\ Owns(last'.user, last'.session_id)
           /\ RowsOf(last'.session_id) # <<>>) =>
                /\ last'.outcome = "ok"
                /\ last'.body # None
                /\ last'.body[1].results # None
                /\ IsBatchInSequenceOrder(last'.body[1].results[1],
                                          RowsOf(last'.session_id))]_vars

\* The ids of the sessions of u that pass the optional mode and level filters.
ListedIds(u, mode, level) ==
    { i \in DOMAIN sessions :
        /\ sessions[i].user_id = u
        /\ (mode # None => sessions[i].mode = mode[1])
        /\ (level # None => sessions[i].level = level[1]) }

\* L is the page (limit, offset) of the sessions ids, newest first (a session
\* created later has the larger id), each entry without results.
IsPageNewestFirst(L, ids, limit, offset) ==
    /\ Len(L) = IF Cardinality(ids) <= offset THEN 0
                ELSE IF Cardinality(ids) - offset < limit
                     THEN Cardinality(ids) - offset ELSE limit
    /\ \A j \in 1..Len(L) :
          /\ L[j].results = None
          /\ \E i \in ids :
                /\ Cardinality({ x \in ids : x > i }) = offset + j - 1
                /\ L[j].session = sessions[i]

\* C12: list_sessions answers with the caller's sessions that pass the optional
\* mode and level filters, newest first by creation, offset entries skipped and
\* at most limit entries returned, none with results embedded.
C12_ListIsOwnedFilteredPaged ==
    [][(last' # last /\ last'.op = "list_sessions") =>
          /\ last'.outcome = "ok"
          /\ last'.body # None
          /\ IsPageNewestFirst(last'.body[1],
                               ListedIds(last'.user, last'.query[1], last'.query[2]),
                               last'.query[3], last'.query[4])]_vars

\* The speeches that pass the level and type filters and carry every tag of
\* tag_ids.
CarryAll(level, type, tag_ids) ==
    { s \in DOMAIN catalog :
        /\ (level # None => catalog[s].level = level[1])
        /\ (type # None => catalog[s].type = type[1])
        /\ \A i \in 1..Len(tag_ids) : tag_ids[i] \in catalog[s].tags }

\* C13: for a non-empty tag_ids, repeated ids included, get_random_speeches
\* returns only speeches that carry every listed tag, and leaves none of them
\* out except by the cap at limit; the answer may be empty.
C13_EveryTagAndNoOtherExclusion ==
    [][(/\ last' # last
        /\ last'.op = "get_random_speeches"
        /\ last'.query[3] # <<>>) =>
          /\ last'.outcome = "ok"
          /\ last'.body[1] \subseteq CarryAll(last'.query[1], last'.query[2],
                                              last'.query[3])
          /\ Cardinality(last'.body[1]) =
                Min(last'.query[4],
                    Cardinality(CarryAll(last'.query[1], last'.query[2],
                                         last'.query[3])))]_vars

\* The step is an import_csv call.
Imports == imports' = imports - 1

\* The upload session an import_csv call names is registered and not expired,
\* and the CSV header has the required columns: the call gets to the data rows.
ReachesRows(csv, sid) ==
    /\ sid \in DOMAIN uploads
    /\ uploads[sid] # None
    /\ now - uploads[sid][1].created_at <= MaxAgeHours
    /\ RequiredColumns \subseteq csv.header

\* The cell of a column is absent or blank.
CellBlank(row, column) ==
    \/ column \notin DOMAIN row
    \/ row[column] = None
    \/ \A i \in 1..Len(row[column][1]) : row[column][1][i] = " "

\* The cell's text without the spaces around it.
CellText(row, column) == Strip(row[column][1])

\* A data row fails validation: filename, text or level missing, a filename the
\* upload session does not know or an earlier accepted row has used, a level
\* that is none of A1..C1, a type that is neither question nor answer.
RowFails(row, session, accepted) ==
    \/ CellBlank(row, "audio_filename")
    \/ CellBlank(row, "text")
    \/ CellBlank(row, "level")
    \/ CellText(row, "audio_filename") \notin DOMAIN session.files
    \/ CellText(row, "audio_filename") \in accepted
    \/ Upper(CellText(row, "level")) \notin { <<l>> : l \in LevelNames }
    \/ /\ ~CellBlank(row, "type")
       /\ Lower(CellText(row, "type")) \notin { <<"question">>, <<"answer">> }

\* The row numbers of the failing rows, the header being row 1 and the first
\* data row row 2.
RECURSIVE FailingRows(_, _, _, _)
FailingRows(rows, row_num, session, accepted) ==
    IF rows = <<>> THEN <<>>
    ELSE IF RowFails(Head(rows), session, accepted)
         THEN <<[row |-> row_num]>>
                  \o FailingRows(Tail(rows), row_num + 1, session, accepted)
         ELSE FailingRows(Tail(rows), row_num + 1, session,
                          accepted \cup {CellText(Head(rows), "audio_filename")})

Failing(csv, sid) == FailingRows(csv.rows, 2, uploads[sid][1], {})

\* C14: when a data row of the CSV fails validation, import_csv creates no
\* speech and no tag and answers with the list of all row errors.
C14_AnyBadRowCreatesNothing ==
    [][(/\ Imports
        /\ ReachesRows(last'.query[1], last'.query[2])
        /\ Failing(last'.query[1], last'.query[2]) # <<>>) =>
          /\ catalog' = catalog
          /\ tags' = tags
          /\ last'.outcome = "ok"
          /\ last'.body[1].created_speeches = <<>>
          /\ last'.body[1].validation_errors
                = Failing(last'.query[1], last'.query[2])]_vars

\* C15: every data row is validated on its own: the answer of import_csv has
\* one error for each failing row and none for another row, numbered from 2
\* for the first data row, and a failing row never ends the call with an error
\* that is not a row error.
C15_OneErrorPerFailingRow ==
    [][(Imports /\ ReachesRows(last'.query[1], last'.query[2])) =>
          /\ last'.outcome \in {"ok", "Validation"}
          /\ Failing(last'.query[1], last'.query[2]) # <<>> =>
                /\ last'.outcome = "ok"
                /\ last'.body[1].validation_errors
                      = Failing(last'.query[1], last'.query[2])
          /\ (Failing(last'.query[1], last'.query[2]) = <<>> /\ last'.outcome = "ok") =>
                last'.body[1].validation_errors = <<>>]_vars

\* The step is an upload_audio_files call that has registered its session.
Uploads == Len(uploads') = Len(uploads) + 1 /\ uploads'[Len(uploads')] # None

\* The name a file is stored under: its storage URL without the bucket prefix
\* and the session's folder.
StoredName(storage_url) == SubSeq(storage_url, 5, Len(storage_url))

\* C16: when one upload call carries the same original filename twice, the two
\* files get distinct stored names, each file is found in the upload session
\* under its stored name, and the original name does not lead to the second
\* file, so that a CSV row meant for the second file and naming the original
\* name cannot match it.
C16_DuplicateNamesBothResolvable ==
    [][Uploads =>
          LET files == uploads'[Len(uploads')][1].files
              up == last'.body[1].uploaded_files
          IN \A i, j \in 1..Len(up) :
                (i < j /\ up[i].original_filename = up[j].original_filename) =>
                    /\ up[i].storage_url # up[j].storage_url
                    /\ \A k \in {i, j} :
                          /\ StoredName(up[k].storage_url) \in DOMAIN files
                          /\ files[StoredName(up[k].storage_url)].storage_url
                                = up[k].storage_url
                    /\ files[up[j].original_filename].storage_url
                          # up[j].storage_url]_vars

\* The upload session sid is registered and older than 24 hours at time t.
Expired(sid, registry, t) ==
    /\ sid \in DOMAIN registry
    /\ registry[sid] # None
    /\ t - registry[sid][1].created_at > MaxAgeHours

\* No upload session is registered under sid.
Unknown(sid, registry) == sid \notin DOMAIN registry \/ registry[sid] = None

\* C17: an import_csv call that names an unknown upload session, or one older
\* than 24 hours, fails with Validation whatever the CSV and creates nothing;
\* an expired session never becomes usable again.
C17_UnknownOrExpiredSessionRejected ==
    [][/\ \A sid \in 1..MaxUploads :
            Expired(sid, uploads, now) =>
                Expired(sid, uploads', now') \/ Unknown(sid, uploads')
       /\ (/\ Imports
           /\ \/ Unknown(last'.query[2], uploads)
              \/ Expired(last'.query[2], uploads, now)) =>
             /\ last'.outcome = "Validation"
             /\ last'.body = None
             /\ speeches' = speeches
             /\ catalog' = catalog
             /\ tags' = tags]_vars

\* An import_csv call has named a session that is registered and expired, with
\* a CSV whose header and rows are all valid, and was rejected.
C17_Witness ==
    /\ last.op = "import_csv"
    /\ last.outcome = "Validation"
    /\ Expired(last.query[2], uploads, now)
    /\ RequiredColumns \subseteq last.query[1].header
    /\ FailingRows(last.query[1].rows, 2, uploads[last.query[2]][1], {}) = <<>>

\* C18: every speech a successful import_csv creates has as audio URL the
\* storage URL that the named upload session's file map holds for the row's
\* filename, there is one new speech for each data row and no other, and so
\* none for a filename the session lacks.
C18_AudioUrlFromSessionMap ==
    [][(Imports /\ last'.outcome = "ok" /\ last'.body[1].validation_errors = <<>>) =>
          LET csv == last'.query[1]
              files == uploads[last'.query[2]][1].files
              created == last'.body[1].created_speeches
          IN /\ Len(created) = Len(csv.rows)
             /\ DOMAIN catalog' \ DOMAIN catalog
                   = { created[k].speech_id : k \in 1..Len(created) }
             /\ \A k \in 1..Len(created) :
                   /\ created[k].row = k + 1
                   /\ created[k].speech_id \notin DOMAIN catalog
                   /\ CellText(csv.rows[k], "audio_filename") \in DOMAIN files
                   /\ catalog'[created[k].speech_id].audio_url
                         = files[CellText(csv.rows[k], "audio_filename")].storage_url]_vars

\* An import has created a speech from a file of the upload session it named
\* while another upload session holds a file of the same name.
C18_Witness ==
    /\ last.op = "import_csv"
    /\ last.outcome = "ok"
    /\ last.body[1].created_speeches # <<>>
    /\ \E sid \in DOMAIN uploads :
          /\ sid # last.query[2]
          /\ uploads[sid] # None
          /\ CellText(last.query[1].rows[1], "audio_filename")
                \in DOMAIN uploads[sid][1].files
    /\ catalog[last.body[1].created_speeches[1].speech_id].audio_url
          = uploads[last.query[2]][1]
                .files[CellText(last.query[1].rows[1], "audio_filename")].storage_url

\* C19: when every row has passed validation and the creation of speeches and
\* tags fails on the way, nothing of the import stays in the database and the
\* caller gets one failure; an import that does not fail has created a speech
\* for every row.
C19_FailedCreationRollsBack ==
    [][(/\ Imports
        /\ ReachesRows(last'.query[1], last'.query[2])
        /\ Failing(last'.query[1], last'.query[2]) = <<>>) =>
          IF last'.outcome = "ok"
          THEN /\ Len(last'.body[1].created_speeches) = Len(last'.query[1].rows)
               /\ Cardinality(DOMAIN catalog' \ DOMAIN catalog)
                     = Len(last'.query[1].rows)
          ELSE /\ last'.outcome = "Validation"
               /\ last'.body = None
               /\ speeches' = speeches
               /\ catalog' = catalog
               /\ tags' = tags]_vars

\* An import of two valid rows has failed on the second row, whose tag name is
\* too long, after the first row had its speech and its new tag x flushed; the
\* tag x is not in the database.
C19_Witness ==
    /\ last.op = "import_csv"
    /\ last.outcome = "Validation"
    /\ ReachesRows(last.query[1], last.query[2])
    /\ Failing(last.query[1], last.query[2]) = <<>>
    /\ Len(last.query[1].rows) = 2
    /\ <<"x">> \in { TagNames(CellText(last.query[1].rows[1], "tags"))[i] :
                       i \in 1..Len(TagNames(CellText(last.query[1].rows[1], "tags"))) }
    /\ CellText(last.query[1].rows[2], "tags") = <<LongPiece>>
    /\ \A t \in tags : t.name # <<"x">>
    /\ DOMAIN catalog = 1..MaxSpeeches

\* The step is an upload_audio_files call with at least one file.
UploadsFiles == Len(uploads') = Len(uploads) + 1

\* The file's name does not end in .mp3, .wav or .m4a, in either case of the
\* letters, or the file is larger than 10 MB.
FileRefused(f) ==
    \/ Len(f.filename) < 2
    \/ f.filename[Len(f.filename) - 1] # "."
    \/ LowerPiece(f.filename[Len(f.filename)]) \notin {"mp3", "wav", "m4a"}
    \/ f.size > 10 * 1024 * 1024

\* C20: when a file of an upload call has a refused extension or size, the call
\* fails with Validation, answers with no session id and no file list, and
\* registers no upload session, also when earlier files of the call are in
\* storage already.
C20_OneBadFileFailsUpload ==
    [][(UploadsFiles /\ \E i \in 1..Len(last'.query[1]) :
                            FileRefused(last'.query[1][i])) =>
          /\ last'.op = "upload_audio_files"
          /\ last'.outcome = "Validation"
          /\ last'.body = None
          /\ \A sid \in DOMAIN uploads' :
                uploads'[sid] # None => (sid \in DOMAIN uploads /\ uploads[sid] # None)]_vars

\* An upload of a good file followed by a refused one has failed: the good file
\* is in storage and no session is registered under the call's id.
C20_Witness ==
    /\ last.op = "upload_audio_files"
    /\ last.outcome = "Validation"
    /\ last.query # None
    /\ Len(last.query[1]) = 2
    /\ ~FileRefused(last.query[1][1])
    /\ FileRefused(last.query[1][2])
    /\ StorageKey(last.session_id, last.query[1][1].filename) \in storage
    /\ uploads[last.session_id] = None

\* C28: the storage paths chosen for the files of one upload_audio_files call
\* are pairwise distinct, whatever the filenames, also when a later original
\* name equals the suffixed name made for an earlier duplicate.
C28_StoragePathsDistinct ==
    [][Uploads =>
          LET up == last'.body[1].uploaded_files
          IN \A i, j \in 1..Len(up) :
                i # j => up[i].storage_url # up[j].storage_url]_vars

\* The step is a sweep of the registry.
Sweeps ==
    /\ last'.op = "cleanup_expired_sessions"
    /\ now' = now
    /\ imports' = imports
    /\ Len(uploads') = Len(uploads)

\* The registered upload sessions older than age hours.
OlderThan(age) ==
    { i \in DOMAIN uploads : uploads[i] # None /\ now - uploads[i][1].created_at > age }

\* C29: cleanup_expired_sessions(max_age) takes from the registry exactly the
\* sessions older than max_age hours and returns their number, every other
\* session stays as it is, and an import_csv that names a removed id fails as
\* for an unknown session.
C29_SweepRemovesExactlyExpired ==
    [][/\ Sweeps =>
             /\ \A i \in DOMAIN uploads :
                   uploads'[i] = IF i \in OlderThan(last'.query[1]) THEN None
                                 ELSE uploads[i]
             /\ last'.body = <<Cardinality(OlderThan(last'.query[1]))>>
       /\ (Imports /\ last'.query[2] \in DOMAIN uploads
               /\ uploads[last'.query[2]] = None) =>
             /\ last'.outcome = "Validation"
             /\ catalog' = catalog]_vars

\* A sweep has removed one session and left a younger one registered.
C29_Witness ==
    /\ last.op = "cleanup_expired_sessions"
    /\ last.body = <<1>>
    /\ \E i, j \in DOMAIN uploads :
          /\ uploads[i] = None
          /\ uploads[j] # None
          /\ now - uploads[j][1].created_at <= last.query[1]
          /\ StorageKey(i, <<"a", ".", "mp3">>) \in storage

\* C21: upload calls do not interfere, in whatever order they and the imports
\* and sweeps run: a call registers its session under an id of its own, the
\* session's file map holds only files of that call, stored by that call, and
\* a registered session's file map is never changed by a later step, which can
\* only remove the session as a whole.
C21_UploadsDoNotInterfere ==
    [][/\ \A i \in DOMAIN uploads :
            /\ i \in DOMAIN uploads'
            /\ uploads'[i] = uploads[i] \/ (Sweeps /\ uploads'[i] = None)
       /\ Uploads =>
             LET files == uploads'[Len(uploads')][1].files
             IN /\ Len(uploads') \notin DOMAIN uploads
                /\ last'.body[1].upload_session_id = Len(uploads')
                /\ \A k \in DOMAIN files :
                      /\ \E n \in 1..Len(last'.query[1]) :
                            /\ last'.query[1][n].filename = files[k].original_filename
                            /\ last'.query[1][n].size = files[k].size_bytes
                      /\ files[k].storage_url \in storage' \ storage]_vars

\* Two upload sessions are registered, each holding a file a.mp3 of its own,
\* after an import has run.
C21_Witness ==
    /\ Len(uploads) = 2
    /\ imports = 0
    /\ \A i \in 1..2 :
          /\ uploads[i] # None
          /\ <<"a", ".", "mp3">> \in DOMAIN uploads[i][1].files
    /\ uploads[1][1].files[<<"a", ".", "mp3">>].storage_url
          # uploads[2][1].files[<<"a", ".", "mp3">>].storage_url

\* No two tags of the table have the same name.
NamesUnique(table) == \A t1, t2 \in table : t1.name = t2.name => t1 = t2

\* The tag names the rows of a CSV carry.
CsvTagNames(csv) ==
    UNION { { TagNames(CellText(csv.rows[k], "tags"))[i] :
                i \in 1..Len(TagNames(CellText(csv.rows[k], "tags"))) } :
            k \in 1..Len(csv.rows) }

\* C22: tag names are unique in every state reached by create_tag, update_tag
\* and import_csv calls; a successful import keeps the tag of every name that
\* exists and adds, for each other name of the CSV, however many rows carry it,
\* one tag of category "imported"; a create_tag, or an update_tag to another
\* name, whose name is taken gets past its check only as a Conflict.
C22_TagNamesStayUnique ==
    [][/\ NamesUnique(tags')
       /\ (Imports /\ last'.outcome = "ok" /\ last'.body[1].created_speeches # <<>>) =>
             /\ tags \subseteq tags'
             /\ \A t \in tags' \ tags :
                   /\ t.name \in CsvTagNames(last'.query[1])
                   /\ t.category = "imported"
             /\ \A n \in CsvTagNames(last'.query[1]) :
                   Cardinality({ t \in tags' : t.name = n }) = 1
       /\ (tagcall = None /\ tagcall' # None) =>
             LET c == tagcall'[1]
             IN /\ c.op = "create_tag" => ~(\E t \in tags : t.name = c.name[1])
                /\ (c.op = "update_tag" /\ c.name # None /\ c.name # c.target) =>
                      ~(\E t \in tags : t.name = c.name[1])
       /\ (/\ tagcall = None
           /\ last' # last
           /\ last'.op \in {"create_tag", "update_tag"}
           /\ last'.outcome = "Conflict") =>
             /\ \E t \in tags : t.name = last'.query[2][1]
             /\ tags' = tags
             /\ catalog' = catalog]_vars

\* An import has run after the tag x was created by hand with category topic:
\* its two speeches carry x, and x is still the one tag made by hand.  A later
\* create_tag of x was rejected.
C22_Witness ==
    /\ imports = 0
    /\ [name |-> <<"x">>, category |-> "topic"] \in tags
    /\ Cardinality({ sp \in DOMAIN catalog : <<"x">> \in catalog[sp].tags }) = 2
    /\ last.op = "create_tag"
    /\ last.outcome = "Conflict"
    /\ last.query[2] = << <<"x">> >>

\* The step is a delete_tag call.
DeletesTag == last' # last /\ last'.op = "delete_tag"

\* The speeches that carry the tag.
Carriers(name) == { sp \in DOMAIN catalog : name \in catalog[sp].tags }

\* C23: delete_tag deletes no speech.  For a tag some speech carries, without
\* force it answers Conflict and changes nothing; with force, or for a tag no
\* speech carries, the tag and its associations go, and every speech stays
\* with its other tags, as do all other tags.
C23_DeleteTagKeepsSpeeches ==
    [][DeletesTag =>
          LET target == last'.query[1]
              force == last'.query[2]
          IN /\ speeches' = speeches
             /\ DOMAIN catalog' = DOMAIN catalog
             /\ IF ~(\E t \in tags : t.name = target)
                THEN /\ last'.outcome = "NotFound"
                     /\ tags' = tags
                     /\ catalog' = catalog
                ELSE IF Carriers(target) # {} /\ ~force
                THEN /\ last'.outcome = "Conflict"
                     /\ tags' = tags
                     /\ catalog' = catalog
                ELSE /\ last'.outcome = "ok"
                     /\ tags' = { t \in tags : t.name # target }
                     /\ \A sp \in DOMAIN catalog :
                           catalog'[sp] = [catalog[sp] EXCEPT !.tags = @ \ {target}]]_vars

\* A forced delete_tag has removed the tag daily_life, which a speech carried;
\* both seeded speeches are there and still carry present_simple.
C23_Witness ==
    /\ last.op = "delete_tag"
    /\ last.outcome = "ok"
    /\ last.query = << <<"daily_life">>, TRUE >>
    /\ last.body # None
    /\ last.body[1] > 0
    /\ ~(\E t \in tags : t.name = <<"daily_life">>)
    /\ \A sp \in SpeechIds :
          /\ sp \in DOMAIN catalog
          /\ <<"present_simple">> \in catalog[sp].tags
          /\ <<"daily_life">> \notin catalog[sp].tags

\* The step is a delete_speech call.
DeletesSpeech == last' # last /\ last'.op = "delete_speech"

\* C30: delete_speech of a speech removes it, its tag associations and the game
\* results that refer to it, and deletes no tag: all tags are there afterwards
\* and every other speech keeps its tags.
C30_DeleteSpeechKeepsTags ==
    [][DeletesSpeech =>
          /\ last'.outcome = "ok"
          /\ speeches' = speeches \ {last'.session_id}
          /\ DOMAIN catalog' = DOMAIN catalog \ {last'.session_id}
          /\ \A i \in 1..Len(results') : results'[i].speech_id # last'.session_id
          /\ tags' = tags
          /\ \A sp \in DOMAIN catalog' : catalog'[sp] = catalog[sp]]_vars

\* The step is a delete_account call.
DeletesAccount == last' # last /\ last'.op = "delete_account"

\* The rows of rs that belong to a session of user u in ss, and those that do not.
ResultsOf(rs, ss, u) ==
    SelectSeq(rs, LAMBDA r : r.session_id \in DOMAIN ss /\ ss[r.session_id].user_id = u)

ResultsOfOthers(rs, ss, u) ==
    SelectSeq(rs, LAMBDA r : ~(r.session_id \in DOMAIN ss /\ ss[r.session_id].user_id = u))

\* C24: after delete_account for a user no game session owned by that user and no
\* game result of such a session remains, and the sessions and the results of
\* every other user are what they were.
C24_DeleteAccountRemovesSessions ==
    [][DeletesAccount =>
          /\ \A sid \in DOMAIN sessions' : sessions'[sid].user_id # last'.user
          /\ ResultsOf(results', sessions, last'.user) = <<>>
          /\ \A sid \in DOMAIN sessions :
                sessions[sid].user_id # last'.user =>
                    sid \in DOMAIN sessions' /\ sessions'[sid] = sessions[sid]
          /\ ResultsOfOthers(results', sessions, last'.user)
                = ResultsOfOthers(results, sessions, last'.user)]_vars

\* The reply is that of a scoring request whose audio part was handed to the
\* configured provider and recognised as one of rs.
AssessedAs(reply, rs) ==
    /\ reply.op = "score_pronunciation"
    /\ reply.query[1] # None
    /\ Head(reply.query[1][1]) = "audio/"
    /\ reply.query[2] = "configured"
    /\ reply.query[3] \in rs

\* C25: 'no speech detected' is reported as a failure that can be told apart from
\* a generic provider failure (a cancellation, an SDK exception): of a scoring
\* request that met the one and a scoring request that met the other, the error
\* kinds or the statuses differ.
C25_NoSpeechToldApart ==
    [][(AssessedAs(last, {"NoMatch"}) /\ AssessedAs(last', {"Canceled", "SdkException"}))
          => (last.outcome # last'.outcome
              \/ last.body[1].caught # last'.body[1].caught)]_vars

\* The emails of the rows of a users table, one entry per row.
EmailsOf(table) ==
    SelectSeq([i \in DOMAIN table |-> IF table[i] = None THEN None
                                      ELSE <<table[i][1].email>>],
              LAMBDA e : e # None)

\* No two rows of the table share an email.
EmailsDistinct(table) ==
    \A i, j \in DOMAIN EmailsOf(table) :
        EmailsOf(table)[i] = EmailsOf(table)[j] => i = j

\* The step is the check of a register call for an email that belongs to a row of
\* users: the call is answered at once, or it goes on to its commit.
RegistersTaken(email) ==
    /\ \E i \in DOMAIN users : users[i] # None /\ users[i][1].email = email
    /\ \/ /\ authcalls' = authcalls
          /\ last' # last /\ last'.op = "register" /\ last'.query[1] = email
       \/ Len(authcalls') > Len(authcalls) /\ authcalls'[Len(authcalls')].op = "register"
                                            /\ authcalls'[Len(authcalls')].email = email

\* C26: registering with an email that belongs to a user, of whatever provider,
\* fails with 'Email already registered', adds no user and issues no tokens; and
\* whatever register and social_auth calls are made, no two users share an email.
C26_EmailsStayUnique ==
    [][/\ \A email \in EmailsSent :
             RegistersTaken(email) =>
                 /\ last'.op = "register"
                 /\ last'.outcome = "Email already registered"
                 /\ last'.body = None
                 /\ users' = users
                 /\ authcalls' = authcalls
       /\ EmailsDistinct(users')]_vars

\* A register call was refused for the email of a Google account, in a table of
\* MaxUsers users.
C26_Witness ==
    /\ last.op = "register"
    /\ last.outcome = "Email already registered"
    /\ \E i \in DOMAIN users :
          /\ users[i] # None
          /\ users[i][1].email = last.query[1]
          /\ users[i][1].auth_provider = "google"
    /\ Len(EmailsOf(users)) = MaxUsers

\* The step is a login call that failed.
LoginFails == last' # last /\ last'.op = "login" /\ last'.outcome # "ok"

\* C27: a failed password login returns the same authentication error whether the
\* email is unknown or the password is wrong for an existing account, so that the
\* answer does not tell whether the email is registered.
C27_FailedLoginTellsNothing ==
    [][LoginFails => last'.outcome = "Invalid email or password"]_vars

============================================================================
